---- MODULE Spec2Model ----
(***************************************************************************)
(* Model of the Storefront API MCP server, mcp-server/src/index.ts.        *)
(*                                                                         *)
(* The server is a class with one mutable field (config) and four request  *)
(* handlers: list-tools, call-tool, list-resources and read-resource.      *)
(* Each handler runs to completion on one request; the model takes one     *)
(* step per request and one step (Deliver) for the transport sending the   *)
(* response and waiting for the next message.                              *)
(*                                                                         *)
(* JavaScript values are records tagged with their type, so that           *)
(* truthiness (!x, x || y), default parameters (x = 20) and optional       *)
(* chaining (args?.k) are computed the way the language computes them.     *)
(* Text is kept as the sequence of the pieces a template literal joins.    *)
(***************************************************************************)
EXTENDS Integers, Sequences, FiniteSets, TLC

VARIABLES
    cfgFile,   \* the file .mcp-config.json as the file system holds it
    env,       \* process.env: the three STOREFRONT_* variables
    platform,  \* process.platform
    config,    \* the field StorefrontApiMcpServer.config
    pc,        \* "idle": waiting for a request; "replied": a handler has returned
    req,       \* the request being answered
    net,       \* what the network does to a POST issued while answering req
    disk,      \* the files readFileSync finds while answering req (path -> content)
    wasmDir,   \* the directory Liquid-main/assets/wasm while answering req
    resp,      \* the handler's outcome: a returned value or a thrown error
    ran,       \* the private method the dispatcher routed to
    posts,     \* the HTTP POSTs issued while answering req, in order
    loads,     \* the results of the loadConfig calls made while answering req
    reads,     \* the paths handed to readFileSync for content while answering req
    seen,      \* history: what loadConfig gave the last earlier request that called it
    failed     \* history: the kind of the last earlier request that ended in a failure

vars == <<cfgFile, env, platform, config, pc, req, net, disk, wasmDir,
          resp, ran, posts, loads, reads, seen, failed>>

(***************************************************************************)
(* Bounds of the model.                                                    *)
(***************************************************************************)
\* longest resource uri, in tokens, explored by the resource specification
MaxUriLen == 3

(***************************************************************************)
(* JavaScript values.                                                      *)
(***************************************************************************)
Undefined == [t |-> "undefined"]
Null == [t |-> "null"]
Str(s) == [t |-> "string", v |-> s]
Num(n) == [t |-> "number", v |-> n]
Obj(o) == [t |-> "object", v |-> o]
EmptyObject == Obj(<<>>)

\* ToBoolean: what `!x`, `x || y` and `x && y` test
Truthy(x) ==
    CASE x.t = "undefined" -> FALSE
      [] x.t = "null" -> FALSE
      [] x.t = "string" -> x.v # ""
      [] x.t = "number" -> x.v # 0
      [] OTHER -> TRUE

\* x || y
OrElse(x, y) == IF Truthy(x) THEN x ELSE y

\* ${x} inside a template literal
ToStr(x) ==
    CASE x.t = "string" -> x.v
      [] x.t = "number" -> ToString(x.v)
      [] x.t = "object" -> "[object Object]"
      [] OTHER -> x.t

\* o.k on a value that may not be an object with that key
Prop(o, k) == IF o.t = "object" /\ k \in DOMAIN o.v THEN o.v[k] ELSE Undefined

\* args?.k
ArgGet(args, k) == Prop(args, k)

(***************************************************************************)
(* Outcomes of a function: a returned value or a thrown Error.             *)
(***************************************************************************)
Return(v) == [threw |-> FALSE, value |-> v]
Throw(m) == [threw |-> TRUE, message |-> m]

\* text built by a string or template literal / by JSON.stringify(v, null, 2)
Lit(parts) == [str |-> parts]
JsonText(v) == [json |-> v]

\* { content: [{ type: 'text', text }] }
TextResult(text) == [content |-> <<[type |-> "text", text |-> text]>>]

\* { content: [{ type: 'text', text: `Error: ${message}` }], isError: true }
ErrorResult(message) ==
    [content |-> <<[type |-> "text", text |-> Lit(<<"Error: ">> \o message)]>>,
     isError |-> TRUE]

\* what a private method hands back to the dispatcher: its outcome, the
\* effects it had, and the server object as it left it
Eff(out, handler, p, l, r, self) ==
    [out |-> out, handler |-> handler, posts |-> p, loads |-> l, reads |-> r,
     self |-> self]

(***************************************************************************)
(* Config loader.                                                          *)
(***************************************************************************)
DefaultApiVersion == "2024-01"

\* fs.existsSync(configPath)
ConfigFileExists(file) == file.kind # "absent"

\* JSON.parse(fs.readFileSync(configPath, 'utf-8')) does not throw
ConfigFileParses(file) == file.kind = "json"

\* mutant: the environment is consulted before the file
LoadConfigEnvFirst(file, e) ==
    IF Truthy(e.STOREFRONT_SHOP_DOMAIN) /\ Truthy(e.STOREFRONT_ACCESS_TOKEN)
    THEN Obj([shopDomain |-> e.STOREFRONT_SHOP_DOMAIN,
              accessToken |-> e.STOREFRONT_ACCESS_TOKEN,
              apiVersion |-> OrElse(e.STOREFRONT_API_VERSION,
                                    Str(DefaultApiVersion))])
    ELSE IF ConfigFileExists(file) /\ ConfigFileParses(file)
         THEN file.value
         ELSE Null

LoadConfig(file, e) ==
    IF ConfigFileExists(file) /\ ConfigFileParses(file)
    THEN file.value
    ELSE IF Truthy(e.STOREFRONT_SHOP_DOMAIN) /\ Truthy(e.STOREFRONT_ACCESS_TOKEN)
         THEN Obj([shopDomain |-> e.STOREFRONT_SHOP_DOMAIN,
                   accessToken |-> e.STOREFRONT_ACCESS_TOKEN,
                   apiVersion |-> OrElse(e.STOREFRONT_API_VERSION,
                                         Str(DefaultApiVersion))])
         ELSE Null

(***************************************************************************)
(* Remote call: queryStorefrontApi and the three compositions over it.     *)
(***************************************************************************)
ConfigNotFoundText ==
    Lit(<<"Storefront API configuration not found. Please set up your access token first.">>)

\* the request fetch() sends
PostRequest(cfg, query, variables) ==
    [method |-> "POST",
     url |-> <<"https://", ToStr(Prop(cfg, "shopDomain")), "/api/",
               ToStr(Prop(cfg, "apiVersion")), "/graphql.json">>,
     token |-> Prop(cfg, "accessToken"),
     body |-> [query |-> query, variables |-> OrElse(variables, EmptyObject)]]

\* await fetch(...); await response.json(): fetch rejects only when no response
\* arrives, json() rejects when the body is not JSON; the status is not read
FetchJson(n) ==
    IF n.kind = "neterr" THEN Throw(<<"fetch failed">>)
    ELSE IF n.body # "json" THEN Throw(<<"Unexpected token < in JSON at position 0">>)
    ELSE Return(n)

\* queryStorefrontApi with one of four slips:
\*   "loadFirst"      the configuration is loaded before the query is checked
\*   "noConfigThrows" a missing configuration is thrown as an error
\*   "retry"          a failed POST is sent a second time
\*   "cached"         the configuration is kept in this.config and reused
QueryWithSlip(self, query, variables, world, slip) ==
    LET hit == slip = "cached" /\ Truthy(self.config)
        cfg == IF hit THEN self.config ELSE LoadConfig(world.cfgFile, world.env)
        kept == IF slip = "cached" THEN [self EXCEPT !.config = cfg] ELSE self
        loaded == IF hit THEN <<>> ELSE <<cfg>>
        data == FetchJson(world.net)
        post == PostRequest(cfg, query, variables)
    IN  IF slip # "loadFirst" /\ ~Truthy(query)
        THEN Eff(Throw(<<"GraphQL query is required">>), "queryStorefrontApi",
                 <<>>, <<>>, <<>>, self)
        ELSE IF ~Truthy(cfg)
        THEN Eff(IF slip = "noConfigThrows"
                 THEN Throw(ConfigNotFoundText.str)
                 ELSE Return(TextResult(ConfigNotFoundText)),
                 "queryStorefrontApi", <<>>, loaded, <<>>, kept)
        ELSE IF ~Truthy(query)
        THEN Eff(Throw(<<"GraphQL query is required">>), "queryStorefrontApi",
                 <<>>, loaded, <<>>, kept)
        ELSE Eff(IF data.threw
                 THEN Throw(<<"API request failed: ">> \o data.message)
                 ELSE Return(TextResult(JsonText(data.value))),
                 "queryStorefrontApi",
                 IF slip = "retry" /\ data.threw THEN <<post, post>> ELSE <<post>>,
                 loaded, <<>>, kept)

QueryStorefrontApiLoadFirst(self, query, variables, world) ==
    QueryWithSlip(self, query, variables, world, "loadFirst")

QueryStorefrontApiNoConfigThrows(self, query, variables, world) ==
    QueryWithSlip(self, query, variables, world, "noConfigThrows")

QueryStorefrontApiRetry(self, query, variables, world) ==
    QueryWithSlip(self, query, variables, world, "retry")

QueryStorefrontApiCached(self, query, variables, world) ==
    QueryWithSlip(self, query, variables, world, "cached")

QueryStorefrontApi(self, query, variables, world) ==
    IF ~Truthy(query)
    THEN Eff(Throw(<<"GraphQL query is required">>), "queryStorefrontApi",
             <<>>, <<>>, <<>>, self)
    ELSE LET cfg == LoadConfig(world.cfgFile, world.env) IN
         IF ~Truthy(cfg)
         THEN Eff(Return(TextResult(ConfigNotFoundText)), "queryStorefrontApi",
                  <<>>, <<cfg>>, <<>>, self)
         ELSE LET data == FetchJson(world.net) IN
              Eff(IF data.threw
                  THEN Throw(<<"API request failed: ">> \o data.message)
                  ELSE Return(TextResult(JsonText(data.value))),
                  "queryStorefrontApi",
                  <<PostRequest(cfg, query, variables)>>, <<cfg>>, <<>>, self)

ProductDocument == "query getProduct($handle: String!) { product(handle: $handle) {...} }"
CollectionDocument == "query getCollection($handle: String!, $first: Int!) { collection(handle: $handle) {...} }"
SearchDocument == "query searchProducts($query: String!, $first: Int!) { products(first: $first, query: $query) {...} }"

DefaultFirst == 20

\* a parameter declared `first: number = 20`: the default replaces undefined only
FirstParam(first) == IF first = Undefined THEN Num(DefaultFirst) ELSE first

Routed(e, handler) == [e EXCEPT !.handler = handler]

GetProduct(self, handle, world) ==
    IF ~Truthy(handle)
    THEN Eff(Throw(<<"Product handle is required">>), "getProduct",
             <<>>, <<>>, <<>>, self)
    ELSE Routed(QueryStorefrontApi(self, Str(ProductDocument),
                                   Obj([handle |-> handle]), world),
                "getProduct")

GetCollection(self, handle, first, world) ==
    IF ~Truthy(handle)
    THEN Eff(Throw(<<"Collection handle is required">>), "getCollection",
             <<>>, <<>>, <<>>, self)
    ELSE Routed(QueryStorefrontApi(self, Str(CollectionDocument),
                                   Obj([handle |-> handle,
                                        first |-> FirstParam(first)]), world),
                "getCollection")

SearchProducts(self, query, first, world) ==
    IF ~Truthy(query)
    THEN Eff(Throw(<<"Search query is required">>), "searchProducts",
             <<>>, <<>>, <<>>, self)
    ELSE Routed(QueryStorefrontApi(self, Str(SearchDocument),
                                   Obj([query |-> query,
                                        first |-> FirstParam(first)]), world),
                "searchProducts")

(***************************************************************************)
(* File tools.  A path is the sequence of the pieces path.join joins; a    *)
(* disk maps the paths of the files that can be read to their content.     *)
(***************************************************************************)
RustSrcDir == "<server>/../../storefront-api-wasm/src/"
AssetsDir == "<server>/../../Liquid-main/assets/"
WasmDirPath == "<server>/../../Liquid-main/assets/wasm"

\* path.join(base, file): throws a TypeError unless file is a string
PathJoin(base, file) ==
    IF file.t = "string"
    THEN Return(<<base, file.v>>)
    ELSE Throw(<<"The 'path' argument must be of type string. Received ",
                 ToStr(file)>>)

\* what a disk holds at a path that cannot be read as a file
IsDirectory == "<a directory>"
NoPermission == "<no read permission>"

\* fs.readFileSync(p, 'utf-8')
ReadFileSync(d, p) ==
    IF p \notin DOMAIN d
    THEN Throw(<<"ENOENT: no such file or directory, open ">> \o p)
    ELSE IF d[p] = IsDirectory
    THEN Throw(<<"EISDIR: illegal operation on a directory, read">>)
    ELSE IF d[p] = NoPermission
    THEN Throw(<<"EACCES: permission denied, open ">> \o p)
    ELSE Return(d[p])

\* the shared body of readRustCode and readJsWrapper
ReadCode(self, handler, base, file, fence, what, d) ==
    LET joined == PathJoin(base, file) IN
    IF joined.threw
    THEN Eff(joined, handler, <<>>, <<>>, <<>>, self)
    ELSE LET content == ReadFileSync(d, joined.value) IN
         Eff(IF content.threw
             THEN Throw(<<what>> \o content.message)
             ELSE Return(TextResult(Lit(<<"# ", ToStr(file), fence,
                                          content.value, "<newline><fence>">>))),
             handler, <<>>, <<>>, <<joined.value>>, self)

ReadRustCode(self, file, world) ==
    ReadCode(self, "readRustCode", RustSrcDir, file, "<newline><newline><fence>rust<newline>",
             "Failed to read Rust file: ", world.disk)

ReadJsWrapper(self, file, world) ==
    ReadCode(self, "readJsWrapper", AssetsDir, file, "<newline><newline><fence>javascript<newline>",
             "Failed to read JavaScript file: ", world.disk)

(***************************************************************************)
(* buildWasm: instructions only, nothing is run.                           *)
(***************************************************************************)
BuildWasm(self, target, world) ==
    Eff(Return(TextResult(Lit(
            <<"To build the WebAssembly module, run: cd storefront-api-wasm ",
              IF world.platform = "win32" THEN "build.bat" ELSE "./build.sh",
              " Or manually: wasm-pack build --target ", ToStr(target),
              " --out-dir ../Liquid-main/assets/wasm --release ",
              "The build will create files in Liquid-main/assets/wasm/">>))),
        "buildWasm", <<>>, <<>>, <<>>, self)

(***************************************************************************)
(* checkBuildStatus.  A directory is absent, is not a directory, or holds  *)
(* entries (name -> size and mtime).                                       *)
(***************************************************************************)
ExpectedFiles == <<"storefront_api_wasm.js", "storefront_api_wasm_bg.wasm">>

\* Date.prototype.toISOString
ToISOString(mtime) == [iso8601 |-> mtime]

\* readdirSync's listing; its order is the operating system's, so the model
\* keeps the names as a set
ReadDir(dir) == DOMAIN dir.entries

\* mutant: built as soon as one expected file is present
CheckBuildStatusAnyPresent(self, world) ==
    LET dir == world.wasmDir IN
    IF dir.kind = "absent"
    THEN Eff(Return(TextResult(JsonText(
                 [built |-> FALSE, files |-> {}, missing |-> ExpectedFiles,
                  props |-> <<>>]))),
             "checkBuildStatus", <<>>, <<>>, <<>>, self)
    ELSE IF dir.kind # "dir"
    THEN Eff(Throw(<<"ENOTDIR: not a directory, scandir ", WasmDirPath>>),
             "checkBuildStatus", <<>>, <<>>, <<>>, self)
    ELSE LET files == ReadDir(dir)
             present == {ExpectedFiles[i] : i \in DOMAIN ExpectedFiles} \cap files
             missing == SelectSeq(ExpectedFiles, LAMBDA f : f \notin files)
         IN  Eff(Return(TextResult(JsonText(
                     [built |-> (Len(missing) < Len(ExpectedFiles)),
                      files |-> files,
                      missing |-> missing,
                      props |-> [f \in present |->
                                    [exists |-> TRUE,
                                     size |-> dir.entries[f].size,
                                     modified |-> ToISOString(dir.entries[f].mtime)]]]))),
                 "checkBuildStatus", <<>>, <<>>, <<>>, self)

CheckBuildStatus(self, world) ==
    LET dir == world.wasmDir IN
    IF dir.kind = "absent"
    THEN Eff(Return(TextResult(JsonText(
                 [built |-> FALSE, files |-> {}, missing |-> ExpectedFiles,
                  props |-> <<>>]))),
             "checkBuildStatus", <<>>, <<>>, <<>>, self)
    ELSE IF dir.kind # "dir"
    THEN Eff(Throw(<<"ENOTDIR: not a directory, scandir ", WasmDirPath>>),
             "checkBuildStatus", <<>>, <<>>, <<>>, self)
    ELSE LET files == ReadDir(dir)
             present == {ExpectedFiles[i] : i \in DOMAIN ExpectedFiles} \cap files
             missing == SelectSeq(ExpectedFiles, LAMBDA f : f \notin files)
         IN  Eff(Return(TextResult(JsonText(
                     [built |-> (Len(missing) = 0),
                      files |-> files,
                      missing |-> missing,
                      props |-> [f \in present |->
                                    [exists |-> TRUE,
                                     size |-> dir.entries[f].size,
                                     modified |-> ToISOString(dir.entries[f].mtime)]]]))),
                 "checkBuildStatus", <<>>, <<>>, <<>>, self)

(***************************************************************************)
(* Resources.  A uri or path is a sequence of tokens: the scheme "file://",*)
(* the separator "/", a name, or a dot followed by a name (".rs"); "." is  *)
(* a bare dot.                                                             *)
(***************************************************************************)
Scheme == "file://"

DotTokens == {".rs", ".js", ".toml", ".md", ".json"}

\* String.prototype.replace(tok, ''): removes the first occurrence only
ReplaceFirst(u, tok) ==
    IF \E i \in DOMAIN u : u[i] = tok
    THEN LET i == CHOOSE k \in DOMAIN u :
                      u[k] = tok /\ \A j \in 1..(k - 1) : u[j] # tok
         IN  SubSeq(u, 1, i - 1) \o SubSeq(u, i + 1, Len(u))
    ELSE u

\* mutant: every occurrence of the scheme is removed (replaceAll)
StripSchemeEverywhere(uri) == SelectSeq(uri, LAMBDA tok : tok # Scheme)

\* uri.replace('file://', '')
StripScheme(uri) == ReplaceFirst(uri, Scheme)

\* the characters of a token, as far as path.extname tells them apart:
\* separators, dots and runs of other characters
Pieces(tok) ==
    CASE tok = Scheme -> <<"file:", "/", "/">>
      [] tok = ".rs" -> <<".", "rs">>
      [] tok = ".js" -> <<".", "js">>
      [] tok = ".toml" -> <<".", "toml">>
      [] tok = ".md" -> <<".", "md">>
      [] tok = ".json" -> <<".", "json">>
      [] OTHER -> <<tok>>

RECURSIVE Expand(_)
Expand(p) == IF p = <<>> THEN <<>> ELSE Pieces(Head(p)) \o Expand(Tail(p))

\* path.extname: trailing separators are skipped; the last component is
\* searched for its last dot; a dot that starts the component, or a
\* component that is exactly "..", gives ''
Extname(p) ==
    LET c == Expand(p)
        ends == {i \in DOMAIN c : c[i] # "/"}
    IN  IF ends = {} THEN <<>>
        ELSE LET end == CHOOSE i \in ends : \A j \in ends : j <= i
                 seps == {i \in 1..end : c[i] = "/"}
                 startPart == IF seps = {} THEN 1
                              ELSE 1 + CHOOSE i \in seps : \A j \in seps : j <= i
                 dots == {i \in startPart..end : c[i] = "."}
             IN  IF dots = {} THEN <<>>
                 ELSE LET startDot == CHOOSE i \in dots : \A j \in dots : j <= i
                      IN  IF startDot = startPart THEN <<>>
                          ELSE IF startDot = end /\ startDot = startPart + 1
                                  /\ c[startPart] = "."
                          THEN <<>>
                          ELSE SubSeq(c, startDot, end)

MimeTypes ==
    [ext \in {<<".", "rs">>, <<".", "js">>, <<".", "toml">>, <<".", "md">>,
              <<".", "json">>} |->
        CASE ext = <<".", "rs">> -> "text/x-rust"
          [] ext = <<".", "js">> -> "application/javascript"
          [] ext = <<".", "toml">> -> "text/x-toml"
          [] ext = <<".", "md">> -> "text/markdown"
          [] ext = <<".", "json">> -> "application/json"]

\* mimeTypes[ext] || 'text/plain'
GetMimeType(filePath) ==
    LET ext == Extname(filePath) IN
    IF ext \in DOMAIN MimeTypes THEN MimeTypes[ext] ELSE "text/plain"

\* mutant: a failed read is answered with a result marked isError
ReadResourceHandlerSoft(self, uri, world) ==
    LET filePath == StripScheme(uri)
        content == ReadFileSync(world.disk, filePath)
    IN  Eff(IF content.threw
            THEN Return(ErrorResult(content.message))
            ELSE Return([contents |-> <<[uri |-> uri,
                                         mimeType |-> GetMimeType(filePath),
                                         text |-> content.value]>>]),
            "readResource", <<>>, <<>>, <<filePath>>, self)

ReadResourceHandler(self, uri, world) ==
    LET filePath == StripScheme(uri)
        content == ReadFileSync(world.disk, filePath)
    IN  Eff(IF content.threw
            THEN Throw(<<"Failed to read resource: ">> \o content.message)
            ELSE Return([contents |-> <<[uri |-> uri,
                                         mimeType |-> GetMimeType(filePath),
                                         text |-> content.value]>>]),
            "readResource", <<>>, <<>>, <<filePath>>, self)

ResourceRegistry ==
    << [uri |-> <<Scheme, "storefront-api-wasm", "/", "src", "/", "lib", ".rs">>,
        name |-> "Rust Source Code", mimeType |-> "text/x-rust"],
       [uri |-> <<Scheme, "Liquid-main", "/", "assets", "/", "storefront-api", ".js">>,
        name |-> "JavaScript Wrapper", mimeType |-> "application/javascript"],
       [uri |-> <<Scheme, "Liquid-main", "/", "assets", "/",
                  "storefront-api-integration", ".js">>,
        name |-> "Integration Helper", mimeType |-> "application/javascript"],
       [uri |-> <<Scheme, "storefront-api-wasm", "/", "Cargo", ".toml">>,
        name |-> "Cargo Configuration", mimeType |-> "text/x-toml"] >>

ListResourcesHandler(self) ==
    Eff(Return([resources |-> ResourceRegistry]), "listResources",
        <<>>, <<>>, <<>>, self)

(***************************************************************************)
(* Tool registry and dispatcher.                                           *)
(***************************************************************************)
ToolRegistry ==
    << [name |-> "build_wasm", properties |-> {"target"}, required |-> {}],
       [name |-> "query_storefront_api", properties |-> {"query", "variables"},
        required |-> {"query"}],
       [name |-> "get_product", properties |-> {"handle"}, required |-> {"handle"}],
       [name |-> "get_collection", properties |-> {"handle", "first"},
        required |-> {"handle"}],
       [name |-> "search_products", properties |-> {"query", "first"},
        required |-> {"query"}],
       [name |-> "read_rust_code", properties |-> {"file"}, required |-> {}],
       [name |-> "read_js_wrapper", properties |-> {"file"}, required |-> {"file"}],
       [name |-> "check_build_status", properties |-> {}, required |-> {}] >>

ListToolsHandler(self) ==
    Eff(Return([tools |-> ToolRegistry]), "listTools", <<>>, <<>>, <<>>, self)

\* mutant: the case label of check_build_status is misspelt
DispatchMisspelt(self, name, args, world) ==
    CASE name = "build_wasm" ->
            BuildWasm(self, OrElse(ArgGet(args, "target"), Str("web")), world)
      [] name = "query_storefront_api" ->
            QueryStorefrontApi(self, ArgGet(args, "query"),
                               ArgGet(args, "variables"), world)
      [] name = "get_product" ->
            GetProduct(self, ArgGet(args, "handle"), world)
      [] name = "get_collection" ->
            GetCollection(self, ArgGet(args, "handle"), ArgGet(args, "first"), world)
      [] name = "search_products" ->
            SearchProducts(self, ArgGet(args, "query"), ArgGet(args, "first"), world)
      [] name = "read_rust_code" ->
            ReadRustCode(self, OrElse(ArgGet(args, "file"), Str("lib.rs")), world)
      [] name = "read_js_wrapper" ->
            ReadJsWrapper(self, ArgGet(args, "file"), world)
      [] name = "check_build_state" ->
            CheckBuildStatus(self, world)
      [] OTHER ->
            Eff(Throw(<<"Unknown tool: ", name>>), "default", <<>>, <<>>, <<>>, self)

\* the switch on the tool name
Dispatch(self, name, args, world) ==
    CASE name = "build_wasm" ->
            BuildWasm(self, OrElse(ArgGet(args, "target"), Str("web")), world)
      [] name = "query_storefront_api" ->
            QueryStorefrontApi(self, ArgGet(args, "query"),
                               ArgGet(args, "variables"), world)
      [] name = "get_product" ->
            GetProduct(self, ArgGet(args, "handle"), world)
      [] name = "get_collection" ->
            GetCollection(self, ArgGet(args, "handle"), ArgGet(args, "first"), world)
      [] name = "search_products" ->
            SearchProducts(self, ArgGet(args, "query"), ArgGet(args, "first"), world)
      [] name = "read_rust_code" ->
            ReadRustCode(self, OrElse(ArgGet(args, "file"), Str("lib.rs")), world)
      [] name = "read_js_wrapper" ->
            ReadJsWrapper(self, ArgGet(args, "file"), world)
      [] name = "check_build_status" ->
            CheckBuildStatus(self, world)
      [] OTHER ->
            Eff(Throw(<<"Unknown tool: ", name>>), "default", <<>>, <<>>, <<>>, self)

\* mutant: the switch runs outside any try/catch
CallToolHandlerNoCatch(self, name, args, world) ==
    Dispatch(self, name, args, world)

\* the try/catch around the switch
CallToolHandler(self, name, args, world) ==
    LET r == Dispatch(self, name, args, world) IN
    IF r.out.threw
    THEN [r EXCEPT !.out = Return(ErrorResult(r.out.message))]
    ELSE r

(***************************************************************************)
(* The world outside the server, and the requests explored.                *)
(***************************************************************************)
PartialFns(D, R) == UNION {[Q -> R] : Q \in SUBSET D}

FileConfig ==
    Obj([shopDomain |-> Str("file-shop.myshopify.com"),
         accessToken |-> Str("file-token"),
         apiVersion |-> Str("2023-10")])

\* .mcp-config.json: missing, present but unreadable, present but not JSON,
\* or JSON text holding null, {} or a full configuration
ConfigFiles ==
    {[kind |-> "absent"], [kind |-> "unreadable"], [kind |-> "malformed"]}
    \cup {[kind |-> "json", value |-> v] : v \in {Null, EmptyObject, FileConfig}}

\* a variable of process.env is unset, the empty string, or a value
Envs ==
    [STOREFRONT_SHOP_DOMAIN : {Undefined, Str(""), Str("env-shop.myshopify.com")},
     STOREFRONT_ACCESS_TOKEN : {Undefined, Str(""), Str("env-token")},
     STOREFRONT_API_VERSION : {Undefined, Str(""), Str("2025-01")}]

Platforms == {"linux", "win32"}

\* no response, or a response with a status and a body that is JSON or not
NetOutcomes ==
    {[kind |-> "neterr", status |-> 0, body |-> "none"]}
    \cup [kind : {"response"}, status : {200, 401}, body : {"json", "html"}]

NoNet == [kind |-> "unused", status |-> 0, body |-> "none"]
NoDisk == <<>>
AbsentDir == [kind |-> "absent"]

Contents == {"A", "B"}

ToolFiles == {<<RustSrcDir, "lib.rs">>, <<AssetsDir, "storefront-api.js">>}

DirStates ==
    {AbsentDir, [kind |-> "notdir"]}
    \cup {[kind |-> "dir", entries |-> e] :
            e \in PartialFns({ExpectedFiles[1], ExpectedFiles[2], "README.md"},
                             {[size |-> 1024, mtime |-> 1], [size |-> 4096, mtime |-> 2]})}

RegisteredNames == {ToolRegistry[i].name : i \in DOMAIN ToolRegistry}
NamesTried == RegisteredNames \cup {"unknown_tool_x", "Build_Wasm"}
RemoteTools == {"query_storefront_api", "get_product", "get_collection",
                "search_products"}

Queries == {Undefined, Str(""), Str("{ shop { name } }")}
Handles == {Undefined, Str(""), Str("shirt")}
Firsts == {Undefined, Null, Num(5)}

\* the argument mappings tried for a tool: none at all, or an object over
\* the properties its schema names
ArgsFor(name) ==
    {Undefined} \cup
    CASE name = "build_wasm" ->
            {Obj([target |-> t]) : t \in {Undefined, Str("web")}}
      [] name = "query_storefront_api" ->
            {Obj([query |-> q, variables |-> v]) :
                q \in Queries, v \in {Undefined, Obj([id |-> Str("1")])}}
      [] name = "get_product" -> {Obj([handle |-> h]) : h \in Handles}
      [] name = "get_collection" ->
            {Obj([handle |-> h, first |-> f]) : h \in Handles, f \in Firsts}
      [] name = "search_products" ->
            {Obj([query |-> q, first |-> f]) : q \in Queries, f \in Firsts}
      [] name \in {"read_rust_code", "read_js_wrapper"} ->
            {Obj([file |-> f]) :
                f \in {Undefined, Str("lib.rs"), Str("storefront-api.js")}}
      [] OTHER -> {EmptyObject}

NetFor(name) == IF name \in RemoteTools THEN NetOutcomes ELSE {NoNet}
DiskFor(name) ==
    IF name \in {"read_rust_code", "read_js_wrapper"}
    THEN PartialFns(ToolFiles, Contents) ELSE {NoDisk}
DirFor(name) == IF name = "check_build_status" THEN DirStates ELSE {AbsentDir}

\* a path that can name a regular file: not empty, not ending in a
\* separator, and its last component is neither "." nor ".."
FileLike(p) ==
    /\ p # <<>>
    /\ p[Len(p)] \notin {"/", Scheme}
    /\ ~(p[Len(p)] = "." /\ (Len(p) = 1 \/ p[Len(p) - 1] \in {"/", Scheme}))
    /\ ~(Len(p) >= 2 /\ p[Len(p)] = "." /\ p[Len(p) - 1] = "."
         /\ (Len(p) = 2 \/ p[Len(p) - 2] \in {"/", Scheme}))

\* the disks tried for a read of uri: files, directories or files without
\* read permission may sit at the uri taken whole as a path, or with its
\* first token or first two tokens dropped, and nowhere else
DisksFor(uri) ==
    PartialFns({p \in {uri, SubSeq(uri, 2, Len(uri)), SubSeq(uri, 3, Len(uri))} :
                    FileLike(p)},
               Contents \cup {IsDirectory, NoPermission})

UriTokens == {Scheme, "/", ".", "x"} \cup DotTokens
Uris == UNION {[1..n -> UriTokens] : n \in 1..MaxUriLen}
ListedUris == {ResourceRegistry[i].uri : i \in DOMAIN ResourceRegistry}

(***************************************************************************)
(* The state machine.                                                      *)
(***************************************************************************)
NoRequest == [kind |-> "none"]
NoResponse == [threw |-> FALSE]
NotSeen == [t |-> "never loaded"]

Init ==
    /\ cfgFile \in ConfigFiles
    /\ env \in Envs
    /\ platform \in Platforms
    /\ config = Null
    /\ pc = "idle"
    /\ req = NoRequest
    /\ net = NoNet
    /\ disk = NoDisk
    /\ wasmDir = AbsentDir
    /\ resp = NoResponse
    /\ ran = "none"
    /\ posts = <<>>
    /\ loads = <<>>
    /\ reads = <<>>
    /\ seen = NotSeen
    /\ failed = "none"

World(n, d, w) ==
    [cfgFile |-> cfgFile, env |-> env, platform |-> platform,
     net |-> n, disk |-> d, wasmDir |-> w]

Self == [config |-> config]

\* a handler has run on request rq in the world (n, d, w) and handed back r
Replied(rq, r, n, d, w) ==
    /\ pc = "idle"
    /\ pc' = "replied"
    /\ req' = rq
    /\ net' = n
    /\ disk' = d
    /\ wasmDir' = w
    /\ resp' = r.out
    /\ ran' = r.handler
    /\ posts' = r.posts
    /\ loads' = r.loads
    /\ reads' = r.reads
    /\ config' = r.self.config
    /\ UNCHANGED <<cfgFile, env, platform, seen, failed>>

ListTools ==
    /\ pc = "idle"
    /\ Replied([kind |-> "listTools"], ListToolsHandler(Self), NoNet, NoDisk, AbsentDir)

CallTool ==
    /\ pc = "idle"
    /\ \E name \in NamesTried :
         \E args \in ArgsFor(name), n \in NetFor(name), d \in DiskFor(name),
            w \in DirFor(name) :
           Replied([kind |-> "callTool", name |-> name, args |-> args],
                   CallToolHandler(Self, name, args, World(n, d, w)), n, d, w)

ListResources ==
    /\ pc = "idle"
    /\ Replied([kind |-> "listResources"], ListResourcesHandler(Self),
               NoNet, NoDisk, AbsentDir)

ReadResourceOf(uri) ==
    \E d \in DisksFor(uri) :
        Replied([kind |-> "readResource", uri |-> uri],
                ReadResourceHandler(Self, uri, World(NoNet, d, AbsentDir)),
                NoNet, d, AbsentDir)

ReadResource == pc = "idle" /\ \E uri \in ListedUris : ReadResourceOf(uri)

ReadAnyResource == pc = "idle" /\ \E uri \in Uris : ReadResourceOf(uri)

\* the operator edits, removes or breaks .mcp-config.json between requests
EditConfigFile ==
    /\ pc = "idle"
    /\ cfgFile' \in ConfigFiles \ {cfgFile}
    /\ UNCHANGED <<env, platform, config, pc, req, net, disk, wasmDir, resp,
                   ran, posts, loads, reads, seen, failed>>

\* the transport sends the response (a result, or the error a handler
\* threw) and the server waits for the next request
Sent ==
    /\ pc = "replied"
    /\ pc' = "idle"
    /\ req' = NoRequest
    /\ net' = NoNet
    /\ disk' = NoDisk
    /\ wasmDir' = AbsentDir
    /\ resp' = NoResponse
    /\ ran' = "none"
    /\ posts' = <<>>
    /\ loads' = <<>>
    /\ reads' = <<>>
    /\ UNCHANGED <<cfgFile, env, platform, config>>

Deliver == Sent /\ UNCHANGED <<seen, failed>>

\* the same step, with the history of the request just answered kept
DeliverAndRemember ==
    /\ Sent
    /\ seen' = IF loads # <<>> THEN loads[Len(loads)] ELSE seen
    /\ UNCHANGED failed

\* the request just answered ended in a failure: the handler threw, or it
\* returned a result marked isError
EndedInFailure ==
    \/ resp.threw
    \/ req.kind = "callTool" /\ "isError" \in DOMAIN resp.value

\* the same step, with the failure of the request just answered kept
DeliverAndNote ==
    /\ Sent
    /\ failed' = IF EndedInFailure THEN req.kind ELSE failed
    /\ UNCHANGED seen

Next ==
    \/ ListTools
    \/ CallTool
    \/ ListResources
    \/ ReadResource
    \/ EditConfigFile
    \/ Deliver

Spec == Init /\ [][Next]_vars

\* the resource server alone, over every uri of up to MaxUriLen tokens, in a
\* process started without configuration
InitResources ==
    /\ Init
    /\ cfgFile = [kind |-> "absent"]
    /\ env = [STOREFRONT_SHOP_DOMAIN |-> Undefined,
              STOREFRONT_ACCESS_TOKEN |-> Undefined,
              STOREFRONT_API_VERSION |-> Undefined]
    /\ platform = "linux"

NextResources ==
    \/ ListResources
    \/ ReadAnyResource
    \/ Deliver

SpecResources == InitResources /\ [][NextResources]_vars

\* sequences of requests with the configuration changing between them, the
\* history of earlier requests kept; one platform and no STOREFRONT_API_VERSION
InitSequence ==
    /\ Init
    /\ platform = "linux"
    /\ env.STOREFRONT_API_VERSION = Undefined

NextSequence ==
    \/ ListTools
    \/ CallTool
    \/ ListResources
    \/ ReadResource
    \/ EditConfigFile
    \/ DeliverAndRemember

SpecSequence == InitSequence /\ [][NextSequence]_vars

\* requests following failed requests: every handler, the failure of earlier
\* requests kept; one platform
InitFailures ==
    /\ Init
    /\ platform = "linux"

NextFailures ==
    \/ ListTools
    \/ CallTool
    \/ ListResources
    \/ ReadResource
    \/ EditConfigFile
    \/ DeliverAndNote

SpecFailures == InitFailures /\ [][NextFailures]_vars

(***************************************************************************)
(* Properties.                                                             *)
(***************************************************************************)
CallReplied == pc = "replied" /\ req.kind = "callTool"

\* the error result the dispatcher contract describes, for a message
ExpectedError(message) ==
    [content |-> <<[type |-> "text", text |-> [str |-> <<"Error: ">> \o message]]>>,
     isError |-> TRUE]

\* r is a ToolResult: a sequence of text entries, with isError true if present
IsToolResult(r) ==
    /\ DOMAIN r \subseteq {"content", "isError"}
    /\ "content" \in DOMAIN r
    /\ \A i \in DOMAIN r.content : r.content[i].type = "text"
    /\ "isError" \in DOMAIN r => r.isError = TRUE

IsErrorResult(r) == "isError" \in DOMAIN r /\ r.isError = TRUE

\* the required argument of a remote tool, as the request carries it
RequiredArg ==
    CASE req.name \in {"query_storefront_api", "search_products"} ->
            ArgGet(req.args, "query")
      [] req.name \in {"get_product", "get_collection"} ->
            ArgGet(req.args, "handle")
      [] OTHER -> Undefined

\* something failed inside the handler of the request just answered
FileNotFound ==
    \/ /\ req.name = "read_rust_code"
       /\ <<RustSrcDir, ToStr(OrElse(ArgGet(req.args, "file"), Str("lib.rs")))>>
              \notin DOMAIN disk
    \/ /\ req.name = "read_js_wrapper"
       /\ ArgGet(req.args, "file") # Undefined
       /\ <<AssetsDir, ToStr(ArgGet(req.args, "file"))>> \notin DOMAIN disk

HandlerFailed ==
    \/ req.name \notin RegisteredNames
    \/ req.name \in RemoteTools /\ RequiredArg = Undefined
    \/ req.name = "read_js_wrapper" /\ ArgGet(req.args, "file") = Undefined
    \/ FileNotFound
    \/ req.name = "check_build_status" /\ wasmDir.kind = "notdir"
    \/ posts # <<>> /\ (net.kind = "neterr" \/ net.body # "json")

\* C1: whatever the tool name, the arguments and the state of the file
\* system, environment and network, the call-tool handler returns a
\* ToolResult and throws nothing; when something failed inside a handler
\* (unknown tool, missing required argument, file not found, file system
\* error, network failure, undecodable body) the result has isError true and
\* a single text entry "Error: <message>".
C1_CallToolNeverThrows ==
    CallReplied =>
        /\ resp.threw = FALSE
        /\ IsToolResult(resp.value)
        /\ HandlerFailed =>
              /\ IsErrorResult(resp.value)
              /\ Len(resp.value.content) = 1
              /\ "str" \in DOMAIN resp.value.content[1].text
              /\ Len(resp.value.content[1].text.str) >= 2
              /\ resp.value.content[1].text.str[1] = "Error: "

\* C1 witness: a POST met a network failure and the call still returned an
\* error result
C1_Witness ==
    /\ CallReplied
    /\ posts # <<>>
    /\ net.kind = "neterr"
    /\ resp.threw = FALSE
    /\ IsErrorResult(resp.value)

\* the private method each registered tool name belongs to
OwnHandler(name) ==
    CASE name = "build_wasm" -> "buildWasm"
      [] name = "query_storefront_api" -> "queryStorefrontApi"
      [] name = "get_product" -> "getProduct"
      [] name = "get_collection" -> "getCollection"
      [] name = "search_products" -> "searchProducts"
      [] name = "read_rust_code" -> "readRustCode"
      [] name = "read_js_wrapper" -> "readJsWrapper"
      [] name = "check_build_status" -> "checkBuildStatus"
      [] OTHER -> "no handler"

\* C2: a call returns the error result "Error: Unknown tool: <name>" exactly
\* when the name is not one listTools returns; every listed name is routed
\* to its own handler; an unknown name causes no file read, no config load
\* and no POST.
C2_RegistryAndDispatcherAgree ==
    CallReplied =>
        /\ (resp = Return(ExpectedError(<<"Unknown tool: ", req.name>>)))
              <=> (req.name \notin {ListToolsHandler(Self).out.value.tools[i].name :
                                      i \in DOMAIN ListToolsHandler(Self).out.value.tools})
        /\ req.name \in RegisteredNames => ran = OwnHandler(req.name)
        /\ req.name \notin RegisteredNames =>
              reads = <<>> /\ loads = <<>> /\ posts = <<>>

\* C2 witness: the unknown name of the specification's example was called
C2_Witness ==
    /\ CallReplied
    /\ req.name = "unknown_tool_x"
    /\ resp = Return(ExpectedError(<<"Unknown tool: ", "unknown_tool_x">>))

\* the message each remote tool gives for its missing argument
RequiredMessage(name) ==
    CASE name = "query_storefront_api" -> "GraphQL query is required"
      [] name = "get_product" -> "Product handle is required"
      [] name = "get_collection" -> "Collection handle is required"
      [] name = "search_products" -> "Search query is required"
      [] OTHER -> "none"

\* C3: when the required argument of query_storefront_api, get_product,
\* get_collection or search_products is absent, the call returns the error
\* result with that tool's own message, whatever the configuration, and
\* neither loads the configuration nor issues a POST.
C3_MissingArgumentIsAnError ==
    (CallReplied /\ req.name \in RemoteTools /\ RequiredArg = Undefined) =>
        /\ resp = Return(ExpectedError(<<RequiredMessage(req.name)>>))
        /\ loads = <<>>
        /\ posts = <<>>

\* C3 witness: get_product without a handle, with a configuration in place
C3_Witness ==
    /\ CallReplied
    /\ req.name = "get_product"
    /\ RequiredArg = Undefined
    /\ cfgFile = [kind |-> "json", value |-> FileConfig]
    /\ IsErrorResult(resp.value)

\* C4: query_storefront_api with a query, when loadConfig yields absent,
\* returns a result that is not an error and whose text says the
\* configuration was not found, and issues no POST.
C4_NoConfigIsASoftFailure ==
    (/\ CallReplied
     /\ req.name = "query_storefront_api"
     /\ Truthy(ArgGet(req.args, "query"))
     /\ LoadConfig(cfgFile, env) = Null) =>
        /\ resp.threw = FALSE
        /\ ~IsErrorResult(resp.value)
        /\ resp.value.content =
              <<[type |-> "text",
                 text |-> [str |-> <<"Storefront API configuration not found. Please set up your access token first.">>]]>>
        /\ posts = <<>>

\* C4 witness: no config file, no environment variables, a query given
C4_Witness ==
    /\ CallReplied
    /\ req.name = "query_storefront_api"
    /\ Truthy(ArgGet(req.args, "query"))
    /\ cfgFile.kind = "absent"
    /\ env.STOREFRONT_SHOP_DOMAIN = Undefined
    /\ env.STOREFRONT_ACCESS_TOKEN = Undefined
    /\ resp.threw = FALSE
    /\ ~IsErrorResult(resp.value)

\* an environment variable is set: it holds a non-empty string (process.env
\* gives a string or undefined, and the code tests the value, so an empty
\* string counts as unset)
EnvSet(v) == v # Undefined /\ v # Str("")

\* the result the priority order prescribes in the current world
PrescribedConfig ==
    IF cfgFile.kind = "json"
    THEN cfgFile.value
    ELSE IF EnvSet(env.STOREFRONT_SHOP_DOMAIN) /\ EnvSet(env.STOREFRONT_ACCESS_TOKEN)
    THEN [t |-> "object",
          v |-> [shopDomain |-> env.STOREFRONT_SHOP_DOMAIN,
                 accessToken |-> env.STOREFRONT_ACCESS_TOKEN,
                 apiVersion |-> IF EnvSet(env.STOREFRONT_API_VERSION)
                                THEN env.STOREFRONT_API_VERSION
                                ELSE [t |-> "string", v |-> "2024-01"]]]
    ELSE [t |-> "null"]

\* C5: loadConfig resolves in priority order, first match wins: a config
\* file that exists and parses gives its content; one that exists but cannot
\* be parsed is passed over without an error; then both required environment
\* variables, with apiVersion defaulting to "2024-01"; otherwise absent.  A
\* parsable file wins over the environment, and one environment variable
\* alone gives absent.
C5_LoadConfigPriority ==
    (pc = "replied" /\ loads # <<>>) =>
        /\ loads = <<PrescribedConfig>>
        /\ (cfgFile.kind \in {"malformed", "unreadable"} /\ posts = <<>>) =>
              (resp.threw = FALSE /\ ~IsErrorResult(resp.value))

\* C5 witness: a config file that does not parse, both required variables
\* set, no version: the environment is used with the default version
C5_Witness ==
    /\ pc = "replied"
    /\ cfgFile.kind = "malformed"
    /\ EnvSet(env.STOREFRONT_SHOP_DOMAIN)
    /\ EnvSet(env.STOREFRONT_ACCESS_TOKEN)
    /\ env.STOREFRONT_API_VERSION = Undefined
    /\ Len(loads) = 1
    /\ loads[1].t = "object"
    /\ loads[1].v.apiVersion = Str("2024-01")
    /\ loads[1].v.shopDomain = env.STOREFRONT_SHOP_DOMAIN

\* the request is one of the four remote tools with its required argument
\* present, in a world where a configuration resolves
RemoteCallDue ==
    /\ req.kind = "callTool"
    /\ req.name \in RemoteTools
    /\ Truthy(RequiredArg)
    /\ Truthy(LoadConfig(cfgFile, env))

\* the POST got no usable answer: no response, or a body that is not JSON
PostFailed == net.kind = "neterr" \/ net.body # "json"

\* C6: an invocation issues at most one POST and retries nothing: after a
\* failed POST it ends with an error result and no second POST.  Exactly one
\* POST is issued when the tool is one of the four remote tools, its
\* required argument is present and a configuration resolved; none is issued
\* for any other request or outcome.
C6_AtMostOnePostNoRetry ==
    pc = "replied" =>
        /\ Len(posts) <= 1
        /\ (Len(posts) = 1) <=> RemoteCallDue
        /\ (RemoteCallDue /\ PostFailed) =>
              (Len(posts) = 1 /\ resp.threw = FALSE /\ IsErrorResult(resp.value))

\* C6 witness: a POST failed on the network; the call ended in an error
\* result with that one POST
C6_Witness ==
    /\ pc = "replied"
    /\ RemoteCallDue
    /\ net.kind = "neterr"
    /\ Len(posts) = 1
    /\ posts[1].method = "POST"
    /\ IsErrorResult(resp.value)

\* the remote call failed: no response, an HTTP status outside 2xx, or a
\* body that does not decode as JSON
RemoteFailure ==
    \/ net.kind = "neterr"
    \/ net.kind = "response" /\ net.status \notin 200..299
    \/ net.kind = "response" /\ net.body # "json"

\* C7: every remote failure of the Storefront call - network failure, HTTP
\* failure, body that is not JSON - is returned as an error result whose text
\* is "Error: API request failed: <message>", never as a non-error result.
C7_RemoteFailureIsAnError ==
    (pc = "replied" /\ posts # <<>> /\ RemoteFailure) =>
        /\ resp.threw = FALSE
        /\ IsErrorResult(resp.value)
        /\ "str" \in DOMAIN resp.value.content[1].text
        /\ SubSeq(resp.value.content[1].text.str, 1, 2)
              = <<"Error: ", "API request failed: ">>

\* the expected file f is present in the output directory
Present(f) == wasmDir.kind = "dir" /\ f \in DOMAIN wasmDir.entries

JsFile == "storefront_api_wasm.js"
WasmFile == "storefront_api_wasm_bg.wasm"

\* the expected files that are not present, in the order they are expected
ExpectedMissing ==
    (IF Present(JsFile) THEN <<>> ELSE <<JsFile>>)
    \o (IF Present(WasmFile) THEN <<>> ELSE <<WasmFile>>)

\* the status object check_build_status returned
Status == resp.value.content[1].text.json

\* C8: for an output directory that is absent, empty, or holds any of the
\* two expected files and other files, check_build_status returns a status
\* whose missing is exactly the expected files not present, whose built is
\* true exactly when both are present (when missing is empty), and which has
\* for each expected file present an entry with exists true, the file's size
\* and its modification time in ISO-8601, and no entry for a missing one.
C8_BuildStatusIsExact ==
    (/\ CallReplied
     /\ req.name = "check_build_status"
     /\ wasmDir.kind \in {"absent", "dir"}) =>
        /\ resp.threw = FALSE
        /\ ~IsErrorResult(resp.value)
        /\ Len(resp.value.content) = 1
        /\ "json" \in DOMAIN resp.value.content[1].text
        /\ Status.missing = ExpectedMissing
        /\ Status.built = (Present(JsFile) /\ Present(WasmFile))
        /\ Status.built = (Status.missing = <<>>)
        /\ DOMAIN Status.props = {f \in {JsFile, WasmFile} : Present(f)}
        /\ \A f \in DOMAIN Status.props :
              Status.props[f] = [exists |-> TRUE,
                                 size |-> wasmDir.entries[f].size,
                                 modified |-> [iso8601 |-> wasmDir.entries[f].mtime]]

\* C8 witness: the directory holds storefront_api_wasm.js and another file
\* but not the .wasm: built is false and missing names the .wasm
C8_Witness ==
    /\ CallReplied
    /\ req.name = "check_build_status"
    /\ wasmDir.kind = "dir"
    /\ DOMAIN wasmDir.entries = {JsFile, "README.md"}
    /\ Status.built = FALSE
    /\ Status.missing = <<WasmFile>>
    /\ Status.props[JsFile].size = wasmDir.entries[JsFile].size

\* the mimeType the extension table gives a path: the path ends in a dot
\* token of the table that does not start its last component
TableMime(p) ==
    LET last == p[Len(p)] IN
    IF Len(p) >= 2 /\ p[Len(p) - 1] \notin {"/", Scheme} /\ last \in DotTokens
    THEN CASE last = ".rs" -> "text/x-rust"
           [] last = ".js" -> "application/javascript"
           [] last = ".toml" -> "text/x-toml"
           [] last = ".md" -> "text/markdown"
           [] last = ".json" -> "application/json"
    ELSE "text/plain"

\* C9: readResource of a uri file://<path> whose path names a readable file
\* returns one content entry with the uri unchanged, the text of the file at
\* <path> (the uri without its leading file://), and the mimeType of the
\* extension table, text/plain for any other or no extension.
C9_ReadResourceRoundTrip ==
    (/\ pc = "replied"
     /\ req.kind = "readResource"
     /\ Head(req.uri) = Scheme
     /\ Tail(req.uri) \in DOMAIN disk
     /\ disk[Tail(req.uri)] \in Contents) =>
        resp = [threw |-> FALSE,
                value |-> [contents |-> <<[uri |-> req.uri,
                                           mimeType |-> TableMime(Tail(req.uri)),
                                           text |-> disk[Tail(req.uri)]]>>]]

\* C9 witness: file://x.rs is read while another file sits at the path the
\* uri would give with one more token dropped; the text is the one of x.rs
C9_Witness ==
    /\ pc = "replied"
    /\ req.kind = "readResource"
    /\ req.uri = <<Scheme, "x", ".rs">>
    /\ DOMAIN disk = {<<"x", ".rs">>, <<".rs">>}
    /\ disk[<<"x", ".rs">>] # disk[<<".rs">>]
    /\ resp.threw = FALSE
    /\ resp.value.contents[1].text = disk[<<"x", ".rs">>]
    /\ resp.value.contents[1].mimeType = "text/x-rust"

\* the url and token a POST carries when built from configuration c
UrlOf(c) ==
    <<"https://", ToStr(Prop(c, "shopDomain")), "/api/",
      ToStr(Prop(c, "apiVersion")), "/graphql.json">>

Unreadable(path) ==
    \/ path \notin DOMAIN disk
    \/ disk[path] \in {IsDirectory, NoPermission}

\* the request just answered was answered: a thrown error with its message,
\* or a returned value
Answered ==
    /\ pc = "replied"
    /\ resp # NoResponse
    /\ \/ resp.threw /\ resp.message # <<>>
       \/ ~resp.threw

\* C11: a read of a resource whose path cannot be read (missing file,
\* directory, no permission) ends in a thrown error, never in a returned
\* ToolResult, and its message is "Failed to read resource: " followed by the
\* message of the failed read; and after a failed tool call or a failed
\* resource read the server still takes every kind of request, and every
\* request taken is answered.
C11_ReadFailureThrowsAndServerGoesOn ==
    /\ (/\ pc = "replied"
        /\ req.kind = "readResource"
        /\ Head(req.uri) = Scheme
        /\ Unreadable(Tail(req.uri))) =>
            /\ resp.threw
            /\ resp.message = <<"Failed to read resource: ">>
                                \o ReadFileSync(disk, Tail(req.uri)).message
    /\ (failed \in {"callTool", "readResource"} /\ pc = "idle") =>
            /\ ENABLED ListTools
            /\ ENABLED CallTool
            /\ ENABLED ListResources
            /\ ENABLED ReadResource
    /\ (failed \in {"callTool", "readResource"} /\ pc = "replied") =>
            /\ Answered
            /\ ENABLED DeliverAndNote

\* a read of a directory fails after an earlier read failed, and is answered
C11_Witness ==
    /\ pc = "replied"
    /\ failed = "readResource"
    /\ req.kind = "readResource"
    /\ Tail(req.uri) \in DOMAIN disk
    /\ disk[Tail(req.uri)] = IsDirectory
    /\ resp.threw
    /\ resp.message = <<"Failed to read resource: ",
                        "EISDIR: illegal operation on a directory, read">>

ComposingTools == {"get_product", "get_collection", "search_products"}

\* a first the caller supplied and the API can use: a number
UsableFirst(f) == f.t = "number"

\* the arguments of the query_storefront_api call a composing tool stands
\* for, the variable first being firstOf(the first argument of the request)
ComposedArgs(firstOf(_)) ==
    CASE req.name = "get_product" ->
            Obj([query |-> Str(ProductDocument),
                 variables |-> Obj([handle |-> ArgGet(req.args, "handle")])])
      [] req.name = "get_collection" ->
            Obj([query |-> Str(CollectionDocument),
                 variables |-> Obj([handle |-> ArgGet(req.args, "handle"),
                                    first |-> firstOf(ArgGet(req.args, "first"))])])
      [] req.name = "search_products" ->
            Obj([query |-> Str(SearchDocument),
                 variables |-> Obj([query |-> ArgGet(req.args, "query"),
                                    first |-> firstOf(ArgGet(req.args, "first"))])])

\* the request just answered was answered, and sent what it sent, exactly as
\* a call of query_storefront_api with the composed arguments in the same
\* world would have been
BehavesAsQuery(firstOf(_)) ==
    LET q == CallToolHandler(Self, "query_storefront_api", ComposedArgs(firstOf),
                             World(net, disk, wasmDir))
    IN  /\ resp = q.out
        /\ posts = q.posts
        /\ loads = q.loads

TwentyUnlessUsable(f) == IF UsableFirst(f) THEN f ELSE Num(20)

TwentyWhenOmitted(f) == IF f = Undefined THEN Num(20) ELSE f

\* apart from the first sent, the three tools are compositions over
\* query_storefront_api
C12_CompositionsOverQuery ==
    (/\ CallReplied
     /\ req.name \in ComposingTools
     /\ Truthy(RequiredArg)) => BehavesAsQuery(TwentyWhenOmitted)

\* a present, non-empty string
NonEmptyString(x) == x.t = "string" /\ x.v # ""

\* a complete ApiConfig: shopDomain, accessToken and apiVersion are all
\* present non-empty strings
CompleteApiConfig(c) ==
    /\ c.t = "object"
    /\ \A k \in {"shopDomain", "accessToken", "apiVersion"} :
           k \in DOMAIN c.v /\ NonEmptyString(c.v[k])

\* the config file parses, to something that is not a complete ApiConfig
FileLacksKeys == cfgFile.kind = "json" /\ ~CompleteApiConfig(cfgFile.value)

\* the configuration the environment variables give
EnvConfig ==
    [t |-> "object",
     v |-> [shopDomain |-> env.STOREFRONT_SHOP_DOMAIN,
            accessToken |-> env.STOREFRONT_ACCESS_TOKEN,
            apiVersion |-> IF EnvSet(env.STOREFRONT_API_VERSION)
                           THEN env.STOREFRONT_API_VERSION
                           ELSE [t |-> "string", v |-> "2024-01"]]]

\* C13: whatever the config file holds and whatever the environment is, a
\* result of loadConfig that is not absent is a complete ApiConfig; every POST
\* goes to a URL and carries a token built from that complete configuration;
\* and a config file that parses but lacks the keys is passed over, the
\* environment variables being used when both are set and no POST being
\* issued when they are not.
C13_LoadedConfigIsComplete ==
    pc = "replied" =>
        /\ \A i \in DOMAIN loads :
               /\ loads[i] # Null => CompleteApiConfig(loads[i])
               /\ FileLacksKeys =>
                      loads[i] = IF /\ EnvSet(env.STOREFRONT_SHOP_DOMAIN)
                                    /\ EnvSet(env.STOREFRONT_ACCESS_TOKEN)
                                 THEN EnvConfig
                                 ELSE Null
        /\ \A i \in DOMAIN posts :
               /\ loads # <<>>
               /\ CompleteApiConfig(loads[Len(loads)])
               /\ posts[i].url = UrlOf(loads[Len(loads)])
               /\ posts[i].token = Prop(loads[Len(loads)], "accessToken")
               /\ NonEmptyString(posts[i].token)

====
